---- MODULE Spec2Model ----
(***************************************************************************)
(* State-machine model of STEPContactAnalyzer (step_contact_analyzer.py)   *)
(* and of analyze_contact_matrix_properties (utils.py).                    *)
(*                                                                         *)
(* The geometry kernel is external: a STEP file is a list of solids and    *)
(* BRepExtrema_DistShapeShape is a deterministic query on two solids that  *)
(* either raises, reports IsDone() = False, or reports a distance.  The    *)
(* variable geometry holds the kernel's answer for every unordered pair of *)
(* the loaded solids.  The answers are an input: they are drawn, all       *)
(* combinations allowed, by the first compute_contact_matrix after a load  *)
(* and stay fixed until the part list is replaced.                         *)
(*                                                                         *)
(* Indices are those of the source: parts, names, rows and columns are     *)
(* functions on 0..n-1.  Distances are integers in units of the tolerance  *)
(* (1e-3 model units).                                                     *)
(***************************************************************************)
EXTENDS Integers, Sequences, FiniteSets, TLC

\* Largest number of solids a STEP file holds in the model.
MaxParts == 3

\* tolerance=1e-3 passed to the constructor, in distance units of 1e-3.
Tolerance == 1

VARIABLES
    geometry,        \* the kernel's answers for the loaded solids, once asked
    tolerance,       \* self.tolerance
    parts,           \* self.parts
    part_names,      \* self.part_names
    contact_matrix,  \* self.contact_matrix (None or an n x n array)
    warnings,        \* pairs for which logger.warning ran in the last call
    queries,         \* pairs handed to the distance query in the last call
    result,          \* what the last call returned or raised
    computed,        \* history: compute_contact_matrix has been called
    returned,        \* the arrays compute_contact_matrix handed to a caller
                     \* who kept them
    script,          \* the run of main.py that drives the analyzer, if any
    files            \* the contact-matrix CSV files on disk: path -> text

vars == <<geometry, tolerance, parts, part_names, contact_matrix,
          warnings, queries, result, computed, returned, script, files>>

\* The analyzer is not driven by main.py.
NoScript == [argv |-> "none", exists |-> FALSE, pc |-> "none", exit |-> -1]

\* No contact-matrix CSV file is on disk.
NoFiles == << >>

\* Python's None where an array or a graph may stand instead.
None == [none |-> TRUE]

\* An n x n numpy array held in a field that may also be None.
Array(M) == [none |-> FALSE, array |-> M]

\* A name attribute that was never set on a graph node.
NoName == << >>

\* Unordered pairs of the solids 0 .. n-1, written <<a, b>> with a < b.
SolidPairs(n) == {p \in (0 .. (n - 1)) \X (0 .. (n - 1)) : p[1] < p[2]}

\* Distances the kernel may report.  A distance is only ever compared with
\* the tolerance, so the two values at the boundary of that comparison are
\* kept: the tolerance itself and the next larger distance.
Distances == Tolerance .. (Tolerance + 1)

\* Outcomes of Perform(): a distance, IsDone() = False, or an exception.
QueryOutcomes ==
    [kind : {"done"}, value : Distances]
        \cup {[kind |-> "notdone", value |-> 0], [kind |-> "raise", value |-> 0]}

Range(f) == {f[x] : x \in DOMAIN f}

Len0(f) == Cardinality(DOMAIN f)

\* f-string "Part_{part_index}"
PartName(part_index) == <<"Part", part_index>>

\* np.zeros((n, n), dtype=int)
Zeros(n) == [i \in 0 .. (n - 1) |-> [j \in 0 .. (n - 1) |-> 0]]

\* M[i, j] = v
SetCell(M, i, j, v) == [M EXCEPT ![i] = [@ EXCEPT ![j] = v]]

\* np.fill_diagonal(M, v)
FillDiagonal(M, v) == [i \in DOMAIN M |-> [j \in DOMAIN M[i] |-> IF i = j THEN v ELSE M[i][j]]]

\* for i in range(n): for j in range(i + 1, n), as the sequence of (i, j)
RECURSIVE PairOrderFrom(_, _, _)
PairOrderFrom(n, i, j) ==
    IF i >= n THEN << >>
    ELSE IF j >= n THEN PairOrderFrom(n, i + 1, i + 2)
    ELSE << <<i, j>> >> \o PairOrderFrom(n, i, j + 1)

\* the double loop written for j in range(n) with i == j skipped: every
\* unordered pair comes twice, as (i, j) and as (j, i)
PairOrder_both_orders(n) ==
    [k \in 1 .. (n * (n - 1)) |->
        LET i == (k - 1) \div (n - 1)
            r == (k - 1) % (n - 1)
        IN  <<i, IF r < i THEN r ELSE r + 1>>]

PairOrder(n) == PairOrderFrom(n, 0, 1)

\* Every way the kernel may answer the queries on n solids.
KernelAnswers(n) == [SolidPairs(n) -> QueryOutcomes]

\* The kernel's answers before the loaded solids were ever queried.
Unknown == [known |-> FALSE]

Known(kernel) == [known |-> TRUE, answers |-> kernel]

\* BRepExtrema_DistShapeShape on two solids: LoadS1, LoadS2, Perform
Perform(kernel, part1, part2) ==
    IF part1 < part2 THEN kernel[<<part1, part2>>] ELSE kernel[<<part2, part1>>]

\* _are_parts_in_contact with the comparison written min_distance < tolerance
_are_parts_in_contact_strict(kernel, part1, part2) ==
    LET calc == Perform(kernel, part1, part2)
    IN  IF calc.kind = "raise"
        THEN [ret |-> FALSE, warned |-> TRUE, escaped |-> FALSE]
        ELSE IF calc.kind = "done"
        THEN [ret |-> (calc.value < tolerance), warned |-> FALSE, escaped |-> FALSE]
        ELSE [ret |-> FALSE, warned |-> FALSE, escaped |-> FALSE]

\* _are_parts_in_contact without its try/except: the kernel's exception leaves
_are_parts_in_contact_uncaught(kernel, part1, part2) ==
    LET calc == Perform(kernel, part1, part2)
    IN  IF calc.kind = "raise"
        THEN [ret |-> FALSE, warned |-> FALSE, escaped |-> TRUE]
        ELSE IF calc.kind = "done"
        THEN [ret |-> (calc.value <= tolerance), warned |-> FALSE, escaped |-> FALSE]
        ELSE [ret |-> FALSE, warned |-> FALSE, escaped |-> FALSE]

(***************************************************************************)
(* _are_parts_in_contact: ret is the value returned, warned says whether   *)
(* logger.warning ran, escaped says whether an exception left the method.  *)
(***************************************************************************)
_are_parts_in_contact(kernel, part1, part2) ==
    LET calc == Perform(kernel, part1, part2)
    IN  IF calc.kind = "raise"
        THEN [ret |-> FALSE, warned |-> TRUE, escaped |-> FALSE]
        ELSE IF calc.kind = "done"
        THEN [ret |-> (calc.value <= tolerance), warned |-> FALSE, escaped |-> FALSE]
        ELSE [ret |-> FALSE, warned |-> FALSE, escaped |-> FALSE]

\* The loop state of compute_contact_matrix is st = [M, warned, asked, raised,
\* writes]: the matrix, the pairs warned about, the pairs queried, whether an
\* exception left the loop, and the assignments to the matrix in the order
\* they ran, each with the pair whose evaluation made it (<< >> for the
\* diagonal) and the cells it set.

\* WritePair without the line self.contact_matrix[j, i] = 1
WritePair_upper_only(st, c, i, j) ==
    [M      |-> IF c.escaped THEN st.M
                ELSE IF c.ret THEN SetCell(st.M, i, j, 1)
                ELSE st.M,
     warned |-> IF c.warned THEN Append(st.warned, <<i, j>>) ELSE st.warned,
     asked  |-> Append(st.asked, <<i, j>>),
     raised |-> c.escaped,
     writes |-> Append(st.writes, [pair |-> <<i, j>>, cells |-> IF c.ret /\ ~c.escaped THEN {<<i, j>>} ELSE {}])]

\* WritePair as a lost update: the two cells are set in a fresh zero matrix
\* that replaces the shared one, so the cells of the other pairs are lost
WritePair_lost_update(st, c, i, j) ==
    [M      |-> IF c.escaped THEN st.M
                ELSE IF c.ret THEN SetCell(SetCell(Zeros(Len0(st.M)), i, j, 1), j, i, 1)
                ELSE st.M,
     warned |-> IF c.warned THEN Append(st.warned, <<i, j>>) ELSE st.warned,
     asked  |-> Append(st.asked, <<i, j>>),
     raised |-> c.escaped,
     writes |-> Append(st.writes, [pair |-> <<i, j>>, cells |-> IF c.ret /\ ~c.escaped THEN (DOMAIN st.M) \X (DOMAIN st.M) ELSE {}])]

\* if <contact>: self.contact_matrix[i, j] = 1; self.contact_matrix[j, i] = 1
WritePair(st, c, i, j) ==
    [M      |-> IF c.escaped THEN st.M
                ELSE IF c.ret THEN SetCell(SetCell(st.M, i, j, 1), j, i, 1)
                ELSE st.M,
     warned |-> IF c.warned THEN Append(st.warned, <<i, j>>) ELSE st.warned,
     asked  |-> Append(st.asked, <<i, j>>),
     raised |-> c.escaped,
     writes |-> Append(st.writes, [pair |-> <<i, j>>, cells |-> IF c.ret /\ ~c.escaped THEN {<<i, j>>, <<j, i>>} ELSE {}])]

\* Body of the inner loop of compute_contact_matrix for one pair (i, j).
PairStep(kernel, st, i, j) ==
    WritePair(st, _are_parts_in_contact(kernel, parts[i], parts[j]), i, j)

\* The double loop of compute_contact_matrix over the pairs from position k on.
RECURSIVE PairLoop(_, _, _, _)
PairLoop(kernel, st, order, k) ==
    IF k > Len(order) \/ st.raised THEN st
    ELSE PairLoop(kernel, PairStep(kernel, st, order[k][1], order[k][2]), order, k + 1)

\* compute_contact_matrix without the np.fill_diagonal line
SetDiagonal_missing(st) == st

\* np.fill_diagonal(self.contact_matrix, 1), reached when the loop ended
\* without an exception
SetDiagonal(st) ==
    IF st.raised THEN st
    ELSE [st EXCEPT !.M = FillDiagonal(@, 1),
                    !.writes = Append(@, [pair |-> << >>,
                                          cells |-> {<<i, i>> : i \in DOMAIN st.M}])]

\* compute_contact_matrix up to its return: allocation, pair loop, diagonal.
compute_contact_matrix(kernel) ==
    LET n_parts == Len0(parts)
        st0 == [M |-> Zeros(n_parts), warned |-> << >>, asked |-> << >>, raised |-> FALSE,
                writes |-> << >>]
    IN  SetDiagonal(PairLoop(kernel, st0, PairOrder(n_parts), 1))

(***************************************************************************)
(* get_contact_graph.  A graph is [nodes, edges]: nodes maps a node to its *)
(* name attribute (NoName when add_edge created it), edges is a set of *)
(* two-element sets, so an edge is undirected and a self-loop is {i}.      *)
(***************************************************************************)
EmptyGraph == [nodes |-> << >>, edges |-> {}]

\* G.add_node(i, name=name)
add_node(G, i, name) ==
    [G EXCEPT !.nodes = [x \in (DOMAIN G.nodes) \cup {i} |-> IF x = i THEN name ELSE G.nodes[x]]]

\* G.add_edge(i, j): creates missing end nodes without attributes
add_edge(G, i, j) ==
    [nodes |-> [x \in (DOMAIN G.nodes) \cup {i, j} |->
                   IF x \in DOMAIN G.nodes THEN G.nodes[x] ELSE NoName],
     edges |-> G.edges \cup {{i, j}}]

\* for i, name in enumerate(self.part_names): G.add_node(i, name=name)
RECURSIVE AddNodes(_, _)
AddNodes(G, i) ==
    IF i >= Len0(part_names) THEN G
    ELSE AddNodes(add_node(G, i, part_names[i]), i + 1)

\* self.contact_matrix[i, j]: IndexError when an index is out of bounds
InBounds(M, i, j) == i \in DOMAIN M /\ j \in DOMAIN M

\* The edge loop of get_contact_graph from position k of the pair order on.
RECURSIVE AddEdges(_, _, _)
AddEdges(st, order, k) ==
    IF k > Len(order) \/ st.status # "ok" THEN st
    ELSE LET i == order[k][1]
             j == order[k][2]
         IN  IF ~InBounds(contact_matrix.array, i, j)
             THEN [st EXCEPT !.status = "IndexError"]
             ELSE IF contact_matrix.array[i][j] = 1
             THEN AddEdges([st EXCEPT !.G = add_edge(st.G, i, j)], order, k + 1)
             ELSE AddEdges(st, order, k + 1)

\* The body of get_contact_graph without its edge loop
BuildGraph_nodes_only == [status |-> "ok", G |-> AddNodes(EmptyGraph, 0)]

\* The body of get_contact_graph after its guard: nodes, then edges.
BuildGraph ==
    LET st == AddEdges([status |-> "ok", G |-> AddNodes(EmptyGraph, 0)],
                       PairOrder(Len0(parts)), 1)
    IN  IF st.status = "ok" THEN st ELSE [st EXCEPT !.G = None]

\* get_contact_graph taking a missing matrix for a matrix without contacts
get_contact_graph_unguarded ==
    IF contact_matrix = None
    THEN [status |-> "ok", G |-> AddNodes(EmptyGraph, 0)]
    ELSE BuildGraph

\* get_contact_graph: [status, G]; G is returned only when status = "ok".
get_contact_graph ==
    IF contact_matrix = None
    THEN [status |-> "ValueError", G |-> None]
    ELSE BuildGraph

\* visualize_contact_graph: [status, G, save_path]; G is the graph drawn and
\* the string "None" is the save_path argument left out.
visualize_contact_graph(save_path) ==
    IF contact_matrix = None
    THEN [status |-> "ValueError", G |-> None, save_path |-> "None"]
    ELSE LET g == get_contact_graph
         IN  IF g.status = "ok"
             THEN [status |-> "ok", G |-> g.G,
                   save_path |-> IF save_path = "None" THEN "results/contact_analysis.png"
                                 ELSE save_path]
             ELSE [status |-> g.status, G |-> None, save_path |-> "None"]

(***************************************************************************)
(* load_step_file.  A file is its number of solids, the solids being       *)
(* 0 .. file-1 in explorer order.  fault says where the reader fails:      *)
(* "status" is ReadFile returning a status other than 1, "transfer" an     *)
(* exception before self.parts is cleared, "explorer" an exception of the  *)
(* TopExp_Explorer after k solids were appended, "none" no failure.        *)
(***************************************************************************)
Files == 0 .. MaxParts

LoadFaults(file) ==
    {[at |-> "none", k |-> file], [at |-> "status", k |-> 0], [at |-> "transfer", k |-> 0]}
        \cup [at : {"explorer"}, k : 0 .. file]

\* [ret, parts, part_names]: the return value and the two fields afterwards.
load_step_file(file, fault) ==
    IF fault.at \in {"status", "transfer"}
    THEN [ret |-> FALSE, parts |-> parts, part_names |-> part_names]
    ELSE [ret        |-> (fault.at = "none"),
          parts      |-> [part_index \in 0 .. (fault.k - 1) |-> part_index],
          part_names |-> [part_index \in 0 .. (fault.k - 1) |-> PartName(part_index)]]

(***************************************************************************)
(* Sums over numpy arrays.                                                 *)
(***************************************************************************)
\* sum of f[0] .. f[n-1]
RECURSIVE SumTo(_, _)
SumTo(f, n) == IF n <= 0 THEN 0 ELSE f[n - 1] + SumTo(f, n - 1)

\* np.sum(M[i])
RowSum(M, i) == SumTo(M[i], Len0(M[i]))

\* np.sum(M) with the diagonal left out
MatrixSum_off_diagonal(M) ==
    SumTo([i \in DOMAIN M |-> RowSum(M, i) - M[i][i]], Len0(M))

\* np.sum(M)
MatrixSum(M) == SumTo([i \in DOMAIN M |-> RowSum(M, i)], Len0(M))

\* max and min of a non-empty array
ArrayMax(f) == CHOOSE v \in Range(f) : \A w \in Range(f) : w <= v
ArrayMin(f) == CHOOSE v \in Range(f) : \A w \in Range(f) : v <= w

(***************************************************************************)
(* analyze_contact_matrix_properties (utils.py).  A quotient a / b is the  *)
(* pair [num |-> a, den |-> b].  np.max of an empty array raises           *)
(* ValueError, which leaves the function.                                  *)
(***************************************************************************)
analyze_contact_matrix_properties(M) ==
    LET n_parts == Len0(M)
        total_contacts == MatrixSum(M) \div 2
        max_possible_contacts == (n_parts * (n_parts - 1)) \div 2
        density == IF max_possible_contacts > 0
                   THEN [num |-> total_contacts, den |-> max_possible_contacts]
                   ELSE [num |-> 0, den |-> 1]
        degree_sequence == [i \in DOMAIN M |-> RowSum(M, i) - 1]
    IN  IF n_parts = 0
        THEN [status |-> "ValueError"]
        ELSE [status          |-> "ok",
              n_parts         |-> n_parts,
              total_contacts  |-> total_contacts,
              contact_density |-> density,
              max_connections |-> ArrayMax(degree_sequence),
              min_connections |-> ArrayMin(degree_sequence),
              avg_connections |-> [num |-> SumTo(degree_sequence, n_parts), den |-> n_parts],
              isolated_parts  |-> Cardinality({i \in DOMAIN M : degree_sequence[i] = 0})]

(***************************************************************************)
(* print_contact_summary: what is printed.  The density is a float         *)
(* quotient: with a zero denominator numpy yields nan or inf, no error.    *)
(* Indexing a row the matrix does not have raises IndexError.              *)
(***************************************************************************)
print_contact_summary ==
    IF contact_matrix = None
    THEN [status |-> "ok", printed |-> "No contact matrix computed."]
    ELSE LET M == contact_matrix.array
             n_parts == Len0(parts)
             total_contacts == MatrixSum(M) \div 2
             names == DOMAIN part_names
         IN  IF \E i \in names : ~InBounds(M, i, i)
             THEN [status |-> "IndexError", printed |-> "summary",
                   n_parts |-> n_parts, total_contacts |-> total_contacts,
                   contact_density |-> [num |-> 2 * total_contacts,
                                        den |-> n_parts * (n_parts - 1)]]
             ELSE [status |-> "ok", printed |-> "summary",
                   n_parts |-> n_parts, total_contacts |-> total_contacts,
                   contact_density |-> [num |-> 2 * total_contacts,
                                        den |-> n_parts * (n_parts - 1)],
                   connections |-> [i \in names |-> RowSum(M, i) - 1],
                   connected_parts |->
                       [i \in names |-> {part_names[j] : j \in {c \in names : M[i][c] = 1 /\ i # c}}]]

(***************************************************************************)
(* The state machine: one action per public call on one analyzer.          *)
(***************************************************************************)
\* save_path arguments of visualize_contact_graph
SavePaths == {"None", "results/out_analysis.png"}

\* STEPContactAnalyzer.__init__
Init ==
    /\ geometry = Unknown
    /\ tolerance = Tolerance
    /\ parts = << >>
    /\ part_names = << >>
    /\ contact_matrix = None
    /\ warnings = << >>
    /\ queries = << >>
    /\ result = [op |-> "__init__", status |-> "ok"]
    /\ computed = FALSE
    /\ returned = << >>
    /\ script = NoScript
    /\ files = NoFiles

LoadStepFile(file, fault) ==
    \E r \in {load_step_file(file, fault)} :
        /\ parts' = r.parts
        /\ part_names' = r.part_names
        /\ result' = [op |-> "load_step_file", status |-> "ok", ret |-> r.ret]
        /\ warnings' = << >>
        /\ queries' = << >>
        /\ geometry' = IF fault.at \in {"status", "transfer"} THEN geometry ELSE Unknown
        /\ UNCHANGED <<tolerance, contact_matrix, computed, returned, script, files>>

\* The answers the kernel may give in this call: those it gave before for
\* the same solids, any at all when they were not queried yet.
AnswersNow ==
    IF geometry.known THEN {geometry.answers} ELSE KernelAnswers(Len0(parts))

\* An array compute_contact_matrix returned and a caller kept is a record
\* [is_field, array, at_return]: whether it is the object the field refers
\* to, what it holds now, and what it held when it was returned.

\* compute_contact_matrix filling the array it already has instead of
\* allocating one: the held arrays stay the analyzer's array
Rebind_in_place(held) == held

\* self.contact_matrix = np.zeros((n_parts, n_parts), dtype=int): the field
\* refers to a new array, no array handed out before is the field's any more
Rebind(held) == [k \in DOMAIN held |-> [held[k] EXCEPT !.is_field = FALSE]]

\* the assignments through self.contact_matrix, seen by every holder of
\* that same array
StoreThroughField(held, M) ==
    [k \in DOMAIN held |-> IF held[k].is_field THEN [held[k] EXCEPT !.array = M]
                           ELSE held[k]]

ComputeContactMatrix ==
    \E kernel \in AnswersNow : \E r \in {compute_contact_matrix(kernel)} :
        /\ geometry' = Known(kernel)
        /\ contact_matrix' = Array(r.M)
        /\ result' = IF r.raised
                     THEN [op |-> "compute_contact_matrix", status |-> "Exception"]
                     ELSE [op |-> "compute_contact_matrix", status |-> "ok", ret |-> r.M,
                           writes |-> r.writes]
        /\ warnings' = r.warned
        /\ queries' = r.asked
        /\ computed' = TRUE
        /\ returned' = StoreThroughField(Rebind(returned), r.M)
        /\ UNCHANGED <<tolerance, parts, part_names, script, files>>

GetContactGraph ==
    \E r \in {get_contact_graph} :
        /\ result' = [op |-> "get_contact_graph", status |-> r.status, G |-> r.G]
        /\ warnings' = << >>
        /\ queries' = << >>
        /\ UNCHANGED <<geometry, tolerance, parts, part_names, contact_matrix, computed, returned, script, files>>

VisualizeContactGraph(save_path) ==
    \E r \in {visualize_contact_graph(save_path)} :
        /\ result' = [op |-> "visualize_contact_graph", status |-> r.status,
                      G |-> r.G, ret |-> r.save_path]
        /\ warnings' = << >>
        /\ queries' = << >>
        /\ UNCHANGED <<geometry, tolerance, parts, part_names, contact_matrix, computed, returned, script, files>>

PrintContactSummary ==
    /\ result' = [op |-> "print_contact_summary", out |-> print_contact_summary]
    /\ warnings' = << >>
    /\ queries' = << >>
    /\ UNCHANGED <<geometry, tolerance, parts, part_names, contact_matrix, computed, returned, script, files>>

\* analyze_contact_matrix_properties on the matrix compute_contact_matrix returned
\* analyze_contact_matrix_properties leaving the self-contacts out of its sums
\* with np.fill_diagonal(contact_matrix, 0) on the caller's array
AnalyzeProperties_clears_diagonal ==
    /\ contact_matrix # None
    /\ result' = [op |-> "analyze_contact_matrix_properties",
                  M |-> contact_matrix.array,
                  out |-> analyze_contact_matrix_properties(contact_matrix.array)]
    /\ contact_matrix' = Array(FillDiagonal(contact_matrix.array, 0))
    /\ warnings' = << >>
    /\ queries' = << >>
    /\ UNCHANGED <<geometry, tolerance, parts, part_names, computed, returned, script, files>>

AnalyzeProperties ==
    /\ contact_matrix # None
    /\ result' = [op |-> "analyze_contact_matrix_properties",
                  M |-> contact_matrix.array,
                  out |-> analyze_contact_matrix_properties(contact_matrix.array)]
    /\ warnings' = << >>
    /\ queries' = << >>
    /\ UNCHANGED <<geometry, tolerance, parts, part_names, contact_matrix, computed, returned, script, files>>

Next ==
    \/ \E file \in Files : \E fault \in LoadFaults(file) : LoadStepFile(file, fault)
    \/ ComputeContactMatrix
    \/ GetContactGraph
    \/ \E save_path \in SavePaths : VisualizeContactGraph(save_path)
    \/ PrintContactSummary
    \/ AnalyzeProperties

Spec == Init /\ [][Next]_vars

(***************************************************************************)
(* The analyses applied to any 0/1 matrix.  The tests assign the fields of *)
(* a fresh analyzer directly and call the analysis on a literal array, so  *)
(* every n x n array of 0 and 1 is an input, symmetric or not.             *)
(***************************************************************************)
BinaryMatrices(n) == [0 .. (n - 1) -> [0 .. (n - 1) -> {0, 1}]]

\* The matrix of test_utilities: [[1,1,1,0],[1,1,0,1],[1,0,1,0],[0,1,0,1]].
TestMatrix4 ==
    [i \in 0 .. 3 |-> [j \in 0 .. 3 |->
        IF i = j \/ {i, j} \in {{0, 1}, {0, 2}, {1, 3}} THEN 1 ELSE 0]]

\* the matrices analyzed: every 0/1 matrix up to the bound, and the matrix
\* of test_utilities
AnalyzedMatrices ==
    UNION {BinaryMatrices(n) : n \in 0 .. MaxParts} \cup {TestMatrix4}

InitMatrix ==
    \E M \in AnalyzedMatrices :
        /\ geometry = Unknown
        /\ tolerance = Tolerance
        /\ parts = [part_index \in DOMAIN M |-> part_index]
        /\ part_names = [part_index \in DOMAIN M |-> PartName(part_index)]
        /\ contact_matrix = Array(M)
        /\ warnings = << >>
        /\ queries = << >>
        /\ result = [op |-> "__init__", status |-> "ok"]
        /\ computed = FALSE
        /\ returned = << >>
        /\ script = NoScript
        /\ files = NoFiles

NextMatrix ==
    \/ AnalyzeProperties
    \/ PrintContactSummary

SpecMatrix == InitMatrix /\ [][NextMatrix]_vars

(***************************************************************************)
(* Properties.                                                             *)
(***************************************************************************)
NParts == Len0(parts)

\* The last call was compute_contact_matrix.
AfterCompute == result.op = "compute_contact_matrix"

\* The kernel's answer for the parts i and j of the loaded list.
Answer(i, j) == Perform(geometry.answers, parts[i], parts[j])

\* The query on parts i and j completed with a distance within the tolerance.
WithinTolerance(i, j) == Answer(i, j).kind = "done" /\ Answer(i, j).value <= tolerance

\* The query on parts i and j failed: not done, or an exception.
QueryFailed(i, j) == Answer(i, j).kind \in {"notdone", "raise"}

\* M is an n x n array of 0 and 1.
IsSquare(M, n) ==
    /\ DOMAIN M = 0 .. (n - 1)
    /\ \A i \in DOMAIN M : DOMAIN M[i] = 0 .. (n - 1) /\ \A j \in DOMAIN M[i] : M[i][j] \in {0, 1}

\* C1: after compute_contact_matrix, for all parts i # j, M[i][j] is 1 exactly
\* when the distance query for i and j completed with a value <= tolerance
\* (a distance equal to the tolerance is contact), and 0 otherwise.
C1_ContactIffWithinTolerance ==
    AfterCompute =>
        /\ result.status = "ok"
        /\ contact_matrix = Array(result.ret)
        /\ \A i, j \in DOMAIN parts :
               i # j => result.ret[i][j] = IF WithinTolerance(i, j) THEN 1 ELSE 0

\* C1 witness: a computed matrix with a contact at exactly the tolerance, a
\* pair beyond the tolerance and a pair whose query did not complete.
C1_Witness ==
    /\ AfterCompute
    /\ \E i, j \in DOMAIN parts :
           /\ i < j /\ Answer(i, j).kind = "done" /\ Answer(i, j).value = tolerance
           /\ result.ret[i][j] = 1
    /\ \E i, j \in DOMAIN parts :
           /\ i < j /\ Answer(i, j).kind = "done" /\ Answer(i, j).value > tolerance
           /\ result.ret[i][j] = 0
    /\ \E i, j \in DOMAIN parts :
           i < j /\ Answer(i, j).kind = "notdone" /\ result.ret[i][j] = 0

\* C2: whatever the distance queries answered (contact, no contact, not done,
\* exception), the matrix compute_contact_matrix returns is symmetric and has
\* a diagonal of ones.
C2_SymmetricUnitDiagonal ==
    AfterCompute =>
        /\ result.status = "ok"
        /\ \A i, j \in DOMAIN result.ret : result.ret[i][j] = result.ret[j][i]
        /\ \A i \in DOMAIN result.ret : result.ret[i][i] = 1

\* C2 witness: a matrix computed for the largest part list from queries that
\* raised, did not complete and found a contact.
C2_Witness ==
    /\ AfterCompute
    /\ NParts = MaxParts
    /\ \E i, j \in DOMAIN parts : i < j /\ Answer(i, j).kind = "raise"
    /\ \E i, j \in DOMAIN parts : i < j /\ Answer(i, j).kind = "notdone"
    /\ \E i, j \in DOMAIN parts : i < j /\ result.ret[i][j] = 1 /\ result.ret[j][i] = 1

\* C3: compute_contact_matrix returns an n x n matrix, n the number of loaded
\* parts, for every n >= 0: the empty matrix for n = 0, [[1]] for n = 1.
C3_SquareOfPartCount ==
    AfterCompute =>
        /\ result.status = "ok"
        /\ IsSquare(result.ret, NParts)
        /\ NParts = 0 => result.ret = << >>
        /\ NParts = 1 => result.ret = [i \in {0} |-> [j \in {0} |-> 1]]

\* C3 witness: the matrix computed for a single part.
C3_Witness ==
    /\ AfterCompute
    /\ NParts = 1
    /\ result.ret[0][0] = 1

\* C4: a distance query that fails (not done, or an exception) never aborts
\* compute_contact_matrix: the pair gets 0 in both cells, every pair is still
\* queried, and the call returns a complete matrix instead of raising.
C4_FailedQueryDoesNotAbort ==
    AfterCompute =>
        /\ result.status = "ok"
        /\ queries = PairOrder(NParts)
        /\ IsSquare(result.ret, NParts)
        /\ \A i \in DOMAIN parts : result.ret[i][i] = 1
        /\ \A i, j \in DOMAIN parts :
               (i # j /\ QueryFailed(i, j)) => (result.ret[i][j] = 0 /\ result.ret[j][i] = 0)

\* C4 witness: the first query raised, the second did not complete, and a
\* later pair was still queried and found in contact.
C4_Witness ==
    /\ AfterCompute
    /\ NParts >= 3
    /\ Answer(0, 1).kind = "raise"
    /\ Answer(0, 2).kind = "notdone"
    /\ WithinTolerance(1, 2)
    /\ result.ret[1][2] = 1
    /\ result.ret[0][1] = 0

\* C5: every failed distance query is recorded as a warning: for each pair
\* whose query did not complete or raised, a warning was logged.
C5_EveryFailureWarned ==
    AfterCompute =>
        \A i, j \in DOMAIN parts :
            (i < j /\ QueryFailed(i, j)) => <<i, j>> \in Range(warnings)

\* C6: whenever contact_matrix is not None, its dimension is the current
\* number of parts (a load that changes the parts drops the old matrix).
C6_MatrixSizedToParts ==
    contact_matrix # None => Len0(contact_matrix.array) = NParts

\* C7: get_contact_graph or visualize_contact_graph on an analyzer whose
\* compute_contact_matrix was never called fails with an error, returns no
\* graph and leaves parts, part_names and contact_matrix unchanged.
C7_GraphBeforeComputeFails ==
    [][(~computed /\ result'.op \in {"get_contact_graph", "visualize_contact_graph"})
           => /\ result'.status = "ValueError"
              /\ result'.G = None
              /\ parts' = parts
              /\ part_names' = part_names
              /\ contact_matrix' = contact_matrix]_vars

\* C7 witness: get_contact_graph was called on loaded parts before any
\* compute_contact_matrix and raised.
C7_Witness ==
    /\ result.op = "get_contact_graph"
    /\ ~computed
    /\ NParts >= 2
    /\ result.status = "ValueError"

\* C8: the graph get_contact_graph returns has exactly one node per matrix
\* row, node i named by part name i, an edge {i, j}, i # j, exactly when
\* M[i][j] = 1, and no self-loop.
C8_GraphMirrorsMatrix ==
    (result.op = "get_contact_graph" /\ result.status = "ok") =>
        /\ DOMAIN result.G.nodes = DOMAIN contact_matrix.array
        /\ \A i \in DOMAIN result.G.nodes : i \in DOMAIN part_names /\ result.G.nodes[i] = part_names[i]
        /\ \A i, j \in DOMAIN contact_matrix.array :
               i # j => ({i, j} \in result.G.edges <=> contact_matrix.array[i][j] = 1)
        /\ \A e \in result.G.edges : Cardinality(e) = 2

\* C9: building the graph fails whenever the number of part names differs
\* from the matrix size, and a graph that is returned has as many nodes as
\* the matrix has rows.
C9_MismatchRejected ==
    (result.op = "get_contact_graph" /\ contact_matrix # None) =>
        /\ Len0(part_names) # Len0(contact_matrix.array) => result.status # "ok"
        /\ result.status = "ok" => Len0(result.G.nodes) = Len0(contact_matrix.array)

\* The number of unordered pairs {i, j}, i < j, with M[i][j] = 1.
EdgeCount(M) == Cardinality({p \in (DOMAIN M) \X (DOMAIN M) : p[1] < p[2] /\ M[p[1]][p[2]] = 1})

\* The matrix of the path 0 - 1 - 2: [[1,1,0],[1,1,1],[0,1,1]].
PathMatrix == [i \in 0 .. 2 |-> [j \in 0 .. 2 |-> IF i - j \in {-1, 0, 1} THEN 1 ELSE 0]]

\* C10: the total contact count the analysis reports is the number of pairs
\* {i, j}, i < j, with M[i][j] = 1, the diagonal not counted; for the path
\* matrix [[1,1,0],[1,1,1],[0,1,1]] it is 2 and the density is 2/3.
C10_ContactsAreEdges ==
    (result.op = "analyze_contact_matrix_properties" /\ result.out.status = "ok") =>
        /\ result.out.total_contacts = EdgeCount(result.M)
        /\ result.M = PathMatrix =>
               /\ result.out.total_contacts = 2
               /\ 3 * result.out.contact_density.num = 2 * result.out.contact_density.den

(***************************************************************************)
(* A caller that keeps the arrays compute_contact_matrix returns.  The     *)
(* method returns self.contact_matrix itself, so the array a caller holds  *)
(* is the analyzer's own array until the field is bound to another one.    *)
(* An entry of returned is [is_field, array, at_return]: whether the held  *)
(* array is the object self.contact_matrix refers to, what it holds now,   *)
(* and what it held when it was returned.                                  *)
(***************************************************************************)
MaxHeld == 2

MaxHeldParts == 2

\* contact_matrix = analyzer.compute_contact_matrix(), the result kept
ComputeAndKeep ==
    /\ Len(returned) < MaxHeld
    /\ \E kernel \in AnswersNow : \E r \in {compute_contact_matrix(kernel)} :
        /\ geometry' = Known(kernel)
        /\ contact_matrix' = Array(r.M)
        /\ result' = IF r.raised
                     THEN [op |-> "compute_contact_matrix", status |-> "Exception"]
                     ELSE [op |-> "compute_contact_matrix", status |-> "ok", ret |-> r.M,
                           writes |-> r.writes]
        /\ warnings' = r.warned
        /\ queries' = r.asked
        /\ computed' = TRUE
        /\ returned' = IF r.raised
                       THEN StoreThroughField(Rebind(returned), r.M)
                       ELSE Append(StoreThroughField(Rebind(returned), r.M),
                                   [is_field |-> TRUE, array |-> r.M, at_return |-> r.M])
        /\ UNCHANGED <<tolerance, parts, part_names, script, files>>

NextHeld ==
    \/ \E file \in 0 .. MaxHeldParts : \E fault \in LoadFaults(file) :
           LoadStepFile(file, fault)
    \/ ComputeAndKeep
    \/ ComputeContactMatrix

SpecHeld == Init /\ [][NextHeld]_vars

(***************************************************************************)
(* main.py.  argv is the command line: "none" for no argument, "file" for  *)
(* a path ending in .step or .stp, "help", "test", or "unknown" for any    *)
(* other word; exists says whether the path to analyze (the default file   *)
(* or the argument) exists.  An argument that is no command and has no     *)
(* STEP suffix is still analyzed when it names an existing path.  The      *)
(* script constructs an analyzer and makes its calls                       *)
(* one after the other, so its position in analyze_step_file is told by    *)
(* the last call made; exit is the exit status, -1 while it runs.          *)
(***************************************************************************)
Argvs == {"none", "file", "help", "test", "unknown"}

InitMain ==
    \E argv \in Argvs : \E exists \in BOOLEAN :
        /\ geometry = Unknown
        /\ tolerance = Tolerance
        /\ parts = << >>
        /\ part_names = << >>
        /\ contact_matrix = None
        /\ warnings = << >>
        /\ queries = << >>
        /\ result = [op |-> "__init__", status |-> "ok"]
        /\ computed = FALSE
        /\ returned = << >>
        /\ script = [argv |-> argv, exists |-> exists, pc |-> "start", exit |-> -1]
        /\ files = NoFiles

Exited(status) == [script EXCEPT !.pc = "exited", !.exit = status]

\* main() up to its first call on the analyzer, or to its end without one
MainDispatch ==
    /\ script.pc = "start"
    /\ \/ /\ script.argv \in {"none", "file"}
          /\ script' = IF script.exists THEN [script EXCEPT !.pc = "analyze"]
                       ELSE Exited(1)
       \/ /\ script.argv = "help"
          /\ script' = Exited(0)
       \/ /\ script.argv = "test"
          /\ \E success \in BOOLEAN : script' = Exited(IF success THEN 0 ELSE 1)
       \/ /\ script.argv = "unknown"
          /\ script' = IF script.exists THEN [script EXCEPT !.pc = "analyze"]
                       ELSE Exited(1)
    /\ UNCHANGED <<geometry, tolerance, parts, part_names, contact_matrix,
                   warnings, queries, result, computed, returned, files>>

\* analyze_step_file has returned: True after print_contact_summary, False
\* after a load_step_file that returned False
AnalyzeReturned ==
    /\ script.pc = "analyze"
    /\ \/ (result.op = "print_contact_summary" /\ result.out.status = "ok")
       \/ (result.op = "load_step_file" /\ ~result.ret)

\* a call made by analyze_step_file has raised: nothing in main.py catches it
AnalyzeRaised ==
    /\ script.pc = "analyze"
    /\ \/ /\ result.op \in {"compute_contact_matrix", "visualize_contact_graph"}
          /\ result.status # "ok"
       \/ (result.op = "print_contact_summary" /\ result.out.status # "ok")

\* the status main() ends with once analyze_step_file has returned success:
\* the default-file branch drops the value and returns, the file branch
\* calls sys.exit(0 if success else 1)
ExitStatus(argv, success) ==
    IF argv = "none" THEN 0 ELSE IF success THEN 0 ELSE 1

\* main() ends: analyze_step_file has returned, or an exception has left
\* main() and the interpreter ends with status 1
MainExit ==
    /\ AnalyzeReturned \/ AnalyzeRaised
    /\ script' = IF AnalyzeRaised THEN Exited(1)
                 ELSE Exited(ExitStatus(script.argv, result.op = "print_contact_summary"))
    /\ UNCHANGED <<geometry, tolerance, parts, part_names, contact_matrix,
                   warnings, queries, result, computed, returned, files>>

\* analyzer.load_step_file(file_path) on the analyzer just constructed
MainLoad ==
    /\ script.pc = "analyze"
    /\ result.op = "__init__"
    /\ \E file \in Files : \E fault \in LoadFaults(file) : LoadStepFile(file, fault)

\* the branch taken when load_step_file returned True, call by call
MainCompute ==
    /\ script.pc = "analyze"
    /\ result.op = "load_step_file"
    /\ result.ret
    /\ ComputeContactMatrix

MainVisualize ==
    /\ script.pc = "analyze"
    /\ result.op = "compute_contact_matrix"
    /\ result.status = "ok"
    /\ VisualizeContactGraph("results/out_analysis.png")

MainPrint ==
    /\ script.pc = "analyze"
    /\ result.op = "visualize_contact_graph"
    /\ result.status = "ok"
    /\ PrintContactSummary

NextMain ==
    \/ MainDispatch
    \/ MainLoad
    \/ MainCompute
    \/ MainVisualize
    \/ MainPrint
    \/ MainExit

SpecMain == InitMain /\ [][NextMain]_vars

(***************************************************************************)
(* The pairs of one compute_contact_matrix call evaluated in any order.    *)
(* The code runs the pairs in the order of its double loop only; the       *)
(* design describes an out-of-order (parallel) evaluation, modelled here   *)
(* as one step per pair: any pending pair runs the body of the code's loop *)
(* on the shared matrix, and the diagonal is set when no pair is pending.  *)
(* Init is the call after its allocation of the zero matrix.               *)
(***************************************************************************)
\* (i, j) comes before (k, l) in the double loop
Earlier(p, q) == p[1] < q[1] \/ (p[1] = q[1] /\ p[2] < q[2])

InitOrder ==
    \E n \in 0 .. MaxParts : \E kernel \in KernelAnswers(n) :
        /\ geometry = Known(kernel)
        /\ tolerance = Tolerance
        /\ parts = [part_index \in 0 .. (n - 1) |-> part_index]
        /\ part_names = [part_index \in 0 .. (n - 1) |-> PartName(part_index)]
        /\ contact_matrix = Array(Zeros(n))
        /\ warnings = << >>
        /\ queries = << >>
        /\ result = [op |-> "evaluate_pairs", status |-> "ok", finished |-> FALSE,
                     pending |-> SolidPairs(n), out_of_order |-> FALSE]
        /\ computed = FALSE
        /\ returned = << >>
        /\ script = NoScript
        /\ files = NoFiles

EvaluatePair(i, j) ==
    /\ result.op = "evaluate_pairs"
    /\ <<i, j>> \in result.pending
    /\ \E r \in {PairStep(geometry.answers,
                          [M |-> contact_matrix.array, warned |-> << >>,
                           asked |-> << >>, raised |-> FALSE, writes |-> << >>],
                          i, j)} :
           /\ contact_matrix' = Array(r.M)
           /\ returned' = StoreThroughField(returned, r.M)
    /\ result' = [result EXCEPT
                      !.pending = @ \ {<<i, j>>},
                      !.out_of_order =
                          @ \/ \E q \in result.pending : Earlier(q, <<i, j>>)]
    /\ UNCHANGED <<geometry, tolerance, parts, part_names, warnings, queries, computed, script, files>>

FinishPairs ==
    /\ result.op = "evaluate_pairs"
    /\ ~result.finished
    /\ result.pending = {}
    /\ \E r \in {SetDiagonal([M |-> contact_matrix.array, warned |-> << >>,
                              asked |-> << >>, raised |-> FALSE, writes |-> << >>])} :
           /\ contact_matrix' = Array(r.M)
           /\ returned' = StoreThroughField(returned, r.M)
    /\ result' = [result EXCEPT !.finished = TRUE]
    /\ computed' = TRUE
    /\ UNCHANGED <<geometry, tolerance, parts, part_names, warnings, queries, script, files>>

\* compute_contact_matrix called again on the same analyzer
RecomputeContactMatrix ==
    /\ computed
    /\ ComputeContactMatrix

NextOrder ==
    \/ \E p \in SolidPairs(MaxParts) : EvaluatePair(p[1], p[2])
    \/ FinishPairs
    \/ RecomputeContactMatrix

SpecOrder == InitOrder /\ [][NextOrder]_vars

(***************************************************************************)
(* Graph analysis of a contact graph.  The code hands the graph to the     *)
(* networkx library (nx.bridges, nx.connected_components); the bridge      *)
(* finder is modelled as the design describes it: one depth-first          *)
(* traversal computing a discovery order and a low-link value per node.    *)
(***************************************************************************)
MaxNodes == 4

Neighbours(G, u) == {v \in DOMAIN G.nodes : v # u /\ {u, v} \in G.edges}

Smallest(S) == CHOOSE x \in S : \A y \in S : x <= y

Lower(a, b) == IF a <= b THEN a ELSE b

\* Back in u after the traversal of its child v: low-link of u, and the tree
\* edge {u, v} is a bridge when no back edge leaves the subtree of v.
ReturnFrom(st, u, v) ==
    [st EXCEPT !.low[u] = Lower(@, st.low[v]),
               !.bridges = IF st.low[v] > st.disc[u] THEN @ \cup {{u, v}} ELSE @]

RECURSIVE Visit(_, _, _, _)
RECURSIVE VisitNeighbours(_, _, _, _)
Visit(G, st, u, parent) ==
    VisitNeighbours(G,
                    [st EXCEPT !.disc[u] = st.time, !.low[u] = st.time, !.time = @ + 1],
                    u, Neighbours(G, u) \ {parent})

VisitNeighbours(G, st, u, vs) ==
    IF vs = {} THEN st
    ELSE LET v == Smallest(vs)
         IN  IF st.disc[v] >= 0
             THEN VisitNeighbours(G, [st EXCEPT !.low[u] = Lower(@, st.disc[v])],
                                  u, vs \ {v})
             ELSE VisitNeighbours(G, ReturnFrom(Visit(G, st, v, u), u, v), u, vs \ {v})

RECURSIVE VisitRoots(_, _, _)
VisitRoots(G, st, roots) ==
    IF roots = {} THEN st
    ELSE LET s == Smallest(roots)
         IN  IF st.disc[s] >= 0
             THEN VisitRoots(G, st, roots \ {s})
             ELSE VisitRoots(G, Visit(G, st, s, -1), roots \ {s})

\* list(nx.bridges(G)), as a set of edges
bridges(G) ==
    VisitRoots(G,
               [disc |-> [v \in DOMAIN G.nodes |-> -1],
                low |-> [v \in DOMAIN G.nodes |-> -1],
                time |-> 0, bridges |-> {}],
               DOMAIN G.nodes).bridges

\* the nodes that can be reached from the set S
RECURSIVE ReachableFrom(_, _)
ReachableFrom(G, S) ==
    LET T == S \cup {v \in DOMAIN G.nodes : \E u \in S : {u, v} \in G.edges}
    IN  IF T = S THEN S ELSE ReachableFrom(G, T)

\* list(nx.connected_components(G)), as a set of node sets
connected_components(G) == {ReachableFrom(G, {v}) : v \in DOMAIN G.nodes}

\* the symmetric unit-diagonal matrix whose contacts are the pairs in E
ContactMatrixOf(n, E) ==
    [i \in 0 .. (n - 1) |-> [j \in 0 .. (n - 1) |->
        IF i = j \/ <<i, j>> \in E \/ <<j, i>> \in E THEN 1 ELSE 0]]

InitGraph ==
    \E n \in 0 .. MaxNodes : \E E \in SUBSET SolidPairs(n) :
        /\ geometry = Unknown
        /\ tolerance = Tolerance
        /\ parts = [part_index \in 0 .. (n - 1) |-> part_index]
        /\ part_names = [part_index \in 0 .. (n - 1) |-> PartName(part_index)]
        /\ contact_matrix = Array(ContactMatrixOf(n, E))
        /\ warnings = << >>
        /\ queries = << >>
        /\ result = [op |-> "__init__", status |-> "ok"]
        /\ computed = FALSE
        /\ returned = << >>
        /\ script = NoScript
        /\ files = NoFiles

\* bridges and connected components of the graph just built
AnalyzeGraph ==
    /\ result.op = "get_contact_graph"
    /\ result.status = "ok"
    /\ result' = [op |-> "graph_analysis", status |-> "ok", G |-> result.G,
                  bridges |-> bridges(result.G),
                  components |-> connected_components(result.G)]
    /\ warnings' = << >>
    /\ queries' = << >>
    /\ UNCHANGED <<geometry, tolerance, parts, part_names, contact_matrix, computed, returned, script, files>>

NextGraph ==
    \/ GetContactGraph
    \/ AnalyzeGraph

SpecGraph == InitGraph /\ [][NextGraph]_vars

(***************************************************************************)
(* The bounding-box pre-filter.  The code has none: USE_BOUNDING_BOX_FILTER *)
(* is assigned in config.py and read nowhere, and compute_contact_matrix   *)
(* hands every pair to _are_parts_in_contact.  The filter is modelled from *)
(* the design: box_overlap on the axis-aligned boxes of the two parts,     *)
(* each expanded by the margin, and a pair loop that skips the detector    *)
(* when the boxes do not overlap; the detector and the loop are the        *)
(* code's.  A part's geometry is a finite set of points with integer       *)
(* coordinates: no point (a degenerate part), one point, or the two ends   *)
(* of a unit cube's diagonal.  The boxes are not cached: a box is a        *)
(* function of the geometry, which the engine never changes.               *)
(***************************************************************************)
MaxBoxParts == 2

MaxCoord == 1

MaxTolerance == 1

Axes == 1 .. 3

Points == (0 .. MaxCoord) \X (0 .. MaxCoord) \X (0 .. MaxCoord)

\* the far end of the diagonal of the unit cube at p
Across(p) == [k \in Axes |-> p[k] + 1]

Solids ==
    {{}} \cup {{p} : p \in Points}
         \cup {{p, Across(p)} : p \in {q \in Points : Across(q) \in Points}}

Tolerances == 0 .. MaxTolerance

MinOf(S) == CHOOSE v \in S : \A w \in S : v <= w

MaxOf(S) == CHOOSE v \in S : \A w \in S : w <= v

\* the square of the distance of two points
Distance2(p, q) ==
    (p[1] - q[1]) * (p[1] - q[1]) + (p[2] - q[2]) * (p[2] - q[2])
        + (p[3] - q[3]) * (p[3] - q[3])

\* The distance whose square is d2, rounded up to a whole number: the
\* distance is only ever compared with a whole tolerance, and d <= t holds
\* exactly when the rounded distance is <= t.
RoundedUp(d2) ==
    CHOOSE c \in 0 .. d2 : c * c >= d2 /\ \A b \in 0 .. (c - 1) : b * b < d2

\* minimum_distance(handleA, handleB) -> (scalar, done): not done for a part
\* without geometry
minimum_distance(A, B) ==
    IF A = {} \/ B = {}
    THEN [kind |-> "notdone", value |-> 0]
    ELSE [kind |-> "done",
          value |-> RoundedUp(MinOf({Distance2(p, q) : p \in A, q \in B}))]

\* bounding_box(handle) -> (min_corner, max_corner); empty for a part
\* without geometry
bounding_box(A) ==
    IF A = {}
    THEN [empty |-> TRUE, min_corner |-> <<0, 0, 0>>, max_corner |-> <<0, 0, 0>>]
    ELSE [empty |-> FALSE,
          min_corner |-> [k \in Axes |-> MinOf({p[k] : p \in A})],
          max_corner |-> [k \in Axes |-> MaxOf({p[k] : p \in A})]]

\* box_overlap comparing the boxes as they are, the margin left out
box_overlap_unexpanded(partA, partB, margin) ==
    LET a == bounding_box(partA)
        b == bounding_box(partB)
    IN  /\ ~a.empty
        /\ ~b.empty
        /\ \A k \in Axes : /\ a.min_corner[k] <= b.max_corner[k]
                            /\ b.min_corner[k] <= a.max_corner[k]

\* box_overlap(partA, partB, margin): the two boxes, each expanded outward
\* by margin, intersect on all three axes; an empty box overlaps nothing
box_overlap(partA, partB, margin) ==
    LET a == bounding_box(partA)
        b == bounding_box(partB)
    IN  /\ ~a.empty
        /\ ~b.empty
        /\ \A k \in Axes :
               /\ a.min_corner[k] - margin <= b.max_corner[k] + margin
               /\ b.min_corner[k] - margin <= a.max_corner[k] + margin

\* the answers of the kernel for the solids of a scene
KernelOf(solids) ==
    [p \in SolidPairs(Len0(solids)) |-> minimum_distance(solids[p[1]], solids[p[2]])]

\* the geometry source holding the solids, its distances known
Scene(solids) == [known |-> TRUE, answers |-> KernelOf(solids), solids |-> solids]

\* One pair of the builder's loop: with the filter enabled a pair whose
\* boxes do not overlap is skipped (no contact recorded, no query made),
\* any other pair runs the body of the code's loop.  The margin is the
\* contact tolerance.
FilteredPairStep(scene, st, i, j, use_bbox_filter) ==
    IF use_bbox_filter /\ ~box_overlap(scene.solids[i], scene.solids[j], tolerance)
    THEN st
    ELSE PairStep(scene.answers, st, i, j)

RECURSIVE FilteredPairLoop(_, _, _, _, _)
FilteredPairLoop(scene, st, order, k, use_bbox_filter) ==
    IF k > Len(order) \/ st.raised THEN st
    ELSE FilteredPairLoop(scene,
                          FilteredPairStep(scene, st, order[k][1], order[k][2],
                                           use_bbox_filter),
                          order, k + 1, use_bbox_filter)

\* compute(parts, tolerance, use_bbox_filter) -> ContactMatrix
compute(scene, use_bbox_filter) ==
    LET n_parts == Len0(parts)
        st0 == [M |-> Zeros(n_parts), warned |-> << >>, asked |-> << >>, raised |-> FALSE,
                writes |-> << >>]
    IN  SetDiagonal(FilteredPairLoop(scene, st0, PairOrder(n_parts), 1, use_bbox_filter))

InitBox ==
    \E n \in 0 .. MaxBoxParts : \E solids \in [0 .. (n - 1) -> Solids] :
      \E t \in Tolerances :
        /\ geometry = Scene(solids)
        /\ tolerance = t
        /\ parts = [part_index \in 0 .. (n - 1) |-> part_index]
        /\ part_names = [part_index \in 0 .. (n - 1) |-> PartName(part_index)]
        /\ contact_matrix = None
        /\ warnings = << >>
        /\ queries = << >>
        /\ result = [op |-> "__init__", status |-> "ok"]
        /\ computed = FALSE
        /\ returned = << >>
        /\ script = NoScript
        /\ files = NoFiles

Compute(use_bbox_filter) ==
    /\ \E r \in {compute(geometry, use_bbox_filter)} :
        /\ contact_matrix' = Array(r.M)
        /\ result' = [op |-> "compute", status |-> "ok",
                      use_bbox_filter |-> use_bbox_filter, ret |-> r.M]
        /\ warnings' = r.warned
        /\ queries' = r.asked
        /\ returned' = StoreThroughField(Rebind(returned), r.M)
    /\ computed' = TRUE
    /\ UNCHANGED <<geometry, tolerance, parts, part_names, script, files>>

NextBox == \E use_bbox_filter \in BOOLEAN : Compute(use_bbox_filter)

SpecBox == InitBox /\ [][NextBox]_vars

(***************************************************************************)
(* The CSV utilities.  A text is a sequence of one-character strings.  The *)
(* file is written with newline='' (the writer's "\r\n" reaches the file   *)
(* as it is) and read back in text mode with universal newlines.           *)
(***************************************************************************)
MaxCsvParts == 2

Digits == <<"0", "1", "2", "3", "4", "5", "6", "7", "8", "9">>

\* str(v) of a non-negative int, as tolist() hands it to the writer
RECURSIVE Str(_)
Str(v) ==
    IF v < Len(Digits)
    THEN <<Digits[v + 1]>>
    ELSE Str(v \div Len(Digits)) \o <<Digits[(v % Len(Digits)) + 1]>>

\* A character outside ASCII is written as its code point: "u0661" is the
\* one character U+0661.  int() takes every Unicode decimal digit (category
\* Nd, Unicode 14.0.0 of Python 3.11): each row is one script's 0 .. 9.
DecimalDigits ==
    <<
      <<"0", "1", "2", "3", "4",
        "5", "6", "7", "8", "9">>,
      <<"u0660", "u0661", "u0662", "u0663", "u0664",
        "u0665", "u0666", "u0667", "u0668", "u0669">>,
      <<"u06F0", "u06F1", "u06F2", "u06F3", "u06F4",
        "u06F5", "u06F6", "u06F7", "u06F8", "u06F9">>,
      <<"u07C0", "u07C1", "u07C2", "u07C3", "u07C4",
        "u07C5", "u07C6", "u07C7", "u07C8", "u07C9">>,
      <<"u0966", "u0967", "u0968", "u0969", "u096A",
        "u096B", "u096C", "u096D", "u096E", "u096F">>,
      <<"u09E6", "u09E7", "u09E8", "u09E9", "u09EA",
        "u09EB", "u09EC", "u09ED", "u09EE", "u09EF">>,
      <<"u0A66", "u0A67", "u0A68", "u0A69", "u0A6A",
        "u0A6B", "u0A6C", "u0A6D", "u0A6E", "u0A6F">>,
      <<"u0AE6", "u0AE7", "u0AE8", "u0AE9", "u0AEA",
        "u0AEB", "u0AEC", "u0AED", "u0AEE", "u0AEF">>,
      <<"u0B66", "u0B67", "u0B68", "u0B69", "u0B6A",
        "u0B6B", "u0B6C", "u0B6D", "u0B6E", "u0B6F">>,
      <<"u0BE6", "u0BE7", "u0BE8", "u0BE9", "u0BEA",
        "u0BEB", "u0BEC", "u0BED", "u0BEE", "u0BEF">>,
      <<"u0C66", "u0C67", "u0C68", "u0C69", "u0C6A",
        "u0C6B", "u0C6C", "u0C6D", "u0C6E", "u0C6F">>,
      <<"u0CE6", "u0CE7", "u0CE8", "u0CE9", "u0CEA",
        "u0CEB", "u0CEC", "u0CED", "u0CEE", "u0CEF">>,
      <<"u0D66", "u0D67", "u0D68", "u0D69", "u0D6A",
        "u0D6B", "u0D6C", "u0D6D", "u0D6E", "u0D6F">>,
      <<"u0DE6", "u0DE7", "u0DE8", "u0DE9", "u0DEA",
        "u0DEB", "u0DEC", "u0DED", "u0DEE", "u0DEF">>,
      <<"u0E50", "u0E51", "u0E52", "u0E53", "u0E54",
        "u0E55", "u0E56", "u0E57", "u0E58", "u0E59">>,
      <<"u0ED0", "u0ED1", "u0ED2", "u0ED3", "u0ED4",
        "u0ED5", "u0ED6", "u0ED7", "u0ED8", "u0ED9">>,
      <<"u0F20", "u0F21", "u0F22", "u0F23", "u0F24",
        "u0F25", "u0F26", "u0F27", "u0F28", "u0F29">>,
      <<"u1040", "u1041", "u1042", "u1043", "u1044",
        "u1045", "u1046", "u1047", "u1048", "u1049">>,
      <<"u1090", "u1091", "u1092", "u1093", "u1094",
        "u1095", "u1096", "u1097", "u1098", "u1099">>,
      <<"u17E0", "u17E1", "u17E2", "u17E3", "u17E4",
        "u17E5", "u17E6", "u17E7", "u17E8", "u17E9">>,
      <<"u1810", "u1811", "u1812", "u1813", "u1814",
        "u1815", "u1816", "u1817", "u1818", "u1819">>,
      <<"u1946", "u1947", "u1948", "u1949", "u194A",
        "u194B", "u194C", "u194D", "u194E", "u194F">>,
      <<"u19D0", "u19D1", "u19D2", "u19D3", "u19D4",
        "u19D5", "u19D6", "u19D7", "u19D8", "u19D9">>,
      <<"u1A80", "u1A81", "u1A82", "u1A83", "u1A84",
        "u1A85", "u1A86", "u1A87", "u1A88", "u1A89">>,
      <<"u1A90", "u1A91", "u1A92", "u1A93", "u1A94",
        "u1A95", "u1A96", "u1A97", "u1A98", "u1A99">>,
      <<"u1B50", "u1B51", "u1B52", "u1B53", "u1B54",
        "u1B55", "u1B56", "u1B57", "u1B58", "u1B59">>,
      <<"u1BB0", "u1BB1", "u1BB2", "u1BB3", "u1BB4",
        "u1BB5", "u1BB6", "u1BB7", "u1BB8", "u1BB9">>,
      <<"u1C40", "u1C41", "u1C42", "u1C43", "u1C44",
        "u1C45", "u1C46", "u1C47", "u1C48", "u1C49">>,
      <<"u1C50", "u1C51", "u1C52", "u1C53", "u1C54",
        "u1C55", "u1C56", "u1C57", "u1C58", "u1C59">>,
      <<"uA620", "uA621", "uA622", "uA623", "uA624",
        "uA625", "uA626", "uA627", "uA628", "uA629">>,
      <<"uA8D0", "uA8D1", "uA8D2", "uA8D3", "uA8D4",
        "uA8D5", "uA8D6", "uA8D7", "uA8D8", "uA8D9">>,
      <<"uA900", "uA901", "uA902", "uA903", "uA904",
        "uA905", "uA906", "uA907", "uA908", "uA909">>,
      <<"uA9D0", "uA9D1", "uA9D2", "uA9D3", "uA9D4",
        "uA9D5", "uA9D6", "uA9D7", "uA9D8", "uA9D9">>,
      <<"uA9F0", "uA9F1", "uA9F2", "uA9F3", "uA9F4",
        "uA9F5", "uA9F6", "uA9F7", "uA9F8", "uA9F9">>,
      <<"uAA50", "uAA51", "uAA52", "uAA53", "uAA54",
        "uAA55", "uAA56", "uAA57", "uAA58", "uAA59">>,
      <<"uABF0", "uABF1", "uABF2", "uABF3", "uABF4",
        "uABF5", "uABF6", "uABF7", "uABF8", "uABF9">>,
      <<"uFF10", "uFF11", "uFF12", "uFF13", "uFF14",
        "uFF15", "uFF16", "uFF17", "uFF18", "uFF19">>,
      <<"u104A0", "u104A1", "u104A2", "u104A3", "u104A4",
        "u104A5", "u104A6", "u104A7", "u104A8", "u104A9">>,
      <<"u10D30", "u10D31", "u10D32", "u10D33", "u10D34",
        "u10D35", "u10D36", "u10D37", "u10D38", "u10D39">>,
      <<"u11066", "u11067", "u11068", "u11069", "u1106A",
        "u1106B", "u1106C", "u1106D", "u1106E", "u1106F">>,
      <<"u110F0", "u110F1", "u110F2", "u110F3", "u110F4",
        "u110F5", "u110F6", "u110F7", "u110F8", "u110F9">>,
      <<"u11136", "u11137", "u11138", "u11139", "u1113A",
        "u1113B", "u1113C", "u1113D", "u1113E", "u1113F">>,
      <<"u111D0", "u111D1", "u111D2", "u111D3", "u111D4",
        "u111D5", "u111D6", "u111D7", "u111D8", "u111D9">>,
      <<"u112F0", "u112F1", "u112F2", "u112F3", "u112F4",
        "u112F5", "u112F6", "u112F7", "u112F8", "u112F9">>,
      <<"u11450", "u11451", "u11452", "u11453", "u11454",
        "u11455", "u11456", "u11457", "u11458", "u11459">>,
      <<"u114D0", "u114D1", "u114D2", "u114D3", "u114D4",
        "u114D5", "u114D6", "u114D7", "u114D8", "u114D9">>,
      <<"u11650", "u11651", "u11652", "u11653", "u11654",
        "u11655", "u11656", "u11657", "u11658", "u11659">>,
      <<"u116C0", "u116C1", "u116C2", "u116C3", "u116C4",
        "u116C5", "u116C6", "u116C7", "u116C8", "u116C9">>,
      <<"u11730", "u11731", "u11732", "u11733", "u11734",
        "u11735", "u11736", "u11737", "u11738", "u11739">>,
      <<"u118E0", "u118E1", "u118E2", "u118E3", "u118E4",
        "u118E5", "u118E6", "u118E7", "u118E8", "u118E9">>,
      <<"u11950", "u11951", "u11952", "u11953", "u11954",
        "u11955", "u11956", "u11957", "u11958", "u11959">>,
      <<"u11C50", "u11C51", "u11C52", "u11C53", "u11C54",
        "u11C55", "u11C56", "u11C57", "u11C58", "u11C59">>,
      <<"u11D50", "u11D51", "u11D52", "u11D53", "u11D54",
        "u11D55", "u11D56", "u11D57", "u11D58", "u11D59">>,
      <<"u11DA0", "u11DA1", "u11DA2", "u11DA3", "u11DA4",
        "u11DA5", "u11DA6", "u11DA7", "u11DA8", "u11DA9">>,
      <<"u16A60", "u16A61", "u16A62", "u16A63", "u16A64",
        "u16A65", "u16A66", "u16A67", "u16A68", "u16A69">>,
      <<"u16AC0", "u16AC1", "u16AC2", "u16AC3", "u16AC4",
        "u16AC5", "u16AC6", "u16AC7", "u16AC8", "u16AC9">>,
      <<"u16B50", "u16B51", "u16B52", "u16B53", "u16B54",
        "u16B55", "u16B56", "u16B57", "u16B58", "u16B59">>,
      <<"u1D7CE", "u1D7CF", "u1D7D0", "u1D7D1", "u1D7D2",
        "u1D7D3", "u1D7D4", "u1D7D5", "u1D7D6", "u1D7D7">>,
      <<"u1D7D8", "u1D7D9", "u1D7DA", "u1D7DB", "u1D7DC",
        "u1D7DD", "u1D7DE", "u1D7DF", "u1D7E0", "u1D7E1">>,
      <<"u1D7E2", "u1D7E3", "u1D7E4", "u1D7E5", "u1D7E6",
        "u1D7E7", "u1D7E8", "u1D7E9", "u1D7EA", "u1D7EB">>,
      <<"u1D7EC", "u1D7ED", "u1D7EE", "u1D7EF", "u1D7F0",
        "u1D7F1", "u1D7F2", "u1D7F3", "u1D7F4", "u1D7F5">>,
      <<"u1D7F6", "u1D7F7", "u1D7F8", "u1D7F9", "u1D7FA",
        "u1D7FB", "u1D7FC", "u1D7FD", "u1D7FE", "u1D7FF">>,
      <<"u1E140", "u1E141", "u1E142", "u1E143", "u1E144",
        "u1E145", "u1E146", "u1E147", "u1E148", "u1E149">>,
      <<"u1E2F0", "u1E2F1", "u1E2F2", "u1E2F3", "u1E2F4",
        "u1E2F5", "u1E2F6", "u1E2F7", "u1E2F8", "u1E2F9">>,
      <<"u1E950", "u1E951", "u1E952", "u1E953", "u1E954",
        "u1E955", "u1E956", "u1E957", "u1E958", "u1E959">>,
      <<"u1FBF0", "u1FBF1", "u1FBF2", "u1FBF3", "u1FBF4",
        "u1FBF5", "u1FBF6", "u1FBF7", "u1FBF8", "u1FBF9">>
    >>

DigitChars == UNION {Range(DecimalDigits[r]) : r \in 1 .. Len(DecimalDigits)}

DigitValue(c) ==
    (CHOOSE k \in 1 .. Len(Digits) :
        \E r \in 1 .. Len(DecimalDigits) : DecimalDigits[r][k] = c) - 1

\* the characters int() skips around the number: U+000B is written by
\* its code point; U+001C .. U+001F, which str.strip() removes, are not
\* among them
Whitespace ==
    {" ", "\t", "\n", "\r", "\f", "u000B",
     "u0085", "u00A0", "u1680", "u2000", "u2001", "u2002", "u2003", "u2004",
     "u2005", "u2006", "u2007", "u2008", "u2009", "u200A", "u2028", "u2029",
     "u202F", "u205F", "u3000"}

\* x without its leading and trailing whitespace
Strip(x) ==
    LET inked == {k \in 1 .. Len(x) : x[k] \notin Whitespace}
    IN  IF inked = {} THEN << >>
        ELSE SubSeq(x, CHOOSE a \in inked : \A k \in inked : a <= k,
                       CHOOSE b \in inked : \A k \in inked : k <= b)

\* x without a leading sign
Unsigned(x) == IF Len(x) > 0 /\ x[1] \in {"+", "-"} THEN Tail(x) ELSE x

\* the value of the digits of x from position k on, underscores passed over
RECURSIVE IntFrom(_, _, _)
IntFrom(x, k, acc) ==
    IF k > Len(x) THEN acc
    ELSE IF x[k] = "_" THEN IntFrom(x, k + 1, acc)
    ELSE IntFrom(x, k + 1, acc * Len(Digits) + DigitValue(x[k]))

\* int(x) accepts x: whitespace around, one optional sign, then decimal
\* digits with single underscores between digits; anything else raises
IsInt(x) ==
    LET d == Unsigned(Strip(x))
    IN  /\ Len(d) > 0
        /\ \A k \in 1 .. Len(d) : d[k] \in DigitChars \cup {"_"}
        /\ d[1] # "_"
        /\ d[Len(d)] # "_"
        /\ \A k \in 1 .. (Len(d) - 1) : ~(d[k] = "_" /\ d[k + 1] = "_")

\* int(x) for an x that int() accepts
IntValue(x) ==
    LET t == Strip(x)
        v == IntFrom(Unsigned(t), 1, 0)
    IN  IF t[1] = "-" THEN 0 - v ELSE v

\* csv.writer, excel dialect: QUOTE_MINIMAL, doublequote, "\r\n" terminator
SpecialChars == {",", "\"", "\r", "\n"}

RECURSIVE DoubleQuotes(_, _)
DoubleQuotes(field, k) ==
    IF k > Len(field) THEN << >>
    ELSE (IF field[k] = "\"" THEN <<"\"", "\"">> ELSE <<field[k]>>)
             \o DoubleQuotes(field, k + 1)

WriteField(field, only_field) ==
    IF (\E k \in 1 .. Len(field) : field[k] \in SpecialChars)
           \/ (only_field /\ field = << >>)
    THEN <<"\"">> \o DoubleQuotes(field, 1) \o <<"\"">>
    ELSE field

RECURSIVE JoinFields(_, _)
JoinFields(row, k) ==
    IF k > Len(row) THEN << >>
    ELSE (IF k > 1 THEN <<",">> ELSE << >>)
             \o WriteField(row[k], Len(row) = 1) \o JoinFields(row, k + 1)

writerow(row) == JoinFields(row, 1) \o <<"\r", "\n">>

\* a Python list (0-based function) as a sequence
RECURSIVE ToList(_, _)
ToList(f, i) ==
    IF i >= Len0(f) THEN << >> ELSE <<f[i]>> \o ToList(f, i + 1)

\* the rows of the matrix written after the header, one per part name
\* the rows the loop of export_contact_matrix_csv writes from row i on: it
\* ends with the names, or where contact_matrix[i] raises IndexError
RECURSIVE WriteRows(_, _, _)
WriteRows(M, names, i) ==
    IF i >= Len0(names) \/ i \notin DOMAIN M THEN << >>
    ELSE writerow(<<names[i]>> \o ToList([j \in DOMAIN M[i] |-> Str(M[i][j])], 0))
             \o WriteRows(M, names, i + 1)

\* the paths of contact-matrix CSV files: the default of the export, a file
\* of the project root, and the place move_existing_outputs moves that one
\* to while the name is free
DefaultCsvPath == "results/contact_matrix.csv"
RootCsvPath == "contact_matrix.csv"
MovedCsvPath == "outputs/matrices/contact_matrix.csv"

\* datetime.now() is one of the seconds 1 .. MaxClock of one minute, and
\* there are at most MaxFiles files
MaxClock == 2
MaxFiles == 3

Clock == 1 .. MaxClock

\* datetime.now().strftime("%Y%m%d_%H%M%S")
strftime(now) == "20260101_00000" \o ToString(now)

\* the name with the timestamp, and the name with timestamp and counter
StampedCsvPath(now) ==
    "outputs/matrices/contact_matrix_" \o strftime(now) \o ".csv"

CountedCsvPath(now, counter) ==
    "outputs/matrices/contact_matrix_" \o strftime(now) \o "_"
        \o ToString(counter) \o ".csv"

\* the filename argument of the export: << >> is None, <<path>> is a path
Filenames == {<< >>, <<RootCsvPath>>}

FilePath(filename) == IF filename = << >> THEN DefaultCsvPath ELSE filename[1]

\* the files fs with text written to path, and without path
Put(fs, path, text) ==
    [p \in DOMAIN fs \cup {path} |-> IF p = path THEN text ELSE fs[p]]

Remove(fs, path) == [p \in DOMAIN fs \ {path} |-> fs[p]]

\* export_contact_matrix_csv: the file is opened and the header written
\* before the loop indexes the matrix, so a call that raises leaves the
\* header and the rows written until then.  matrix is None or an array.
export_contact_matrix_csv(matrix, names, filename) ==
    [status |-> IF Len0(names) = 0 THEN "ok"
                ELSE IF matrix = None THEN "TypeError"
                ELSE IF \E i \in DOMAIN names : i \notin DOMAIN matrix.array
                THEN "IndexError"
                ELSE "ok",
     file_path |-> FilePath(filename),
     file |-> writerow(<<<< >>>> \o ToList(names, 0))
                  \o (IF matrix = None THEN << >>
                      ELSE WriteRows(matrix.array, names, 0))]

\* open(filename, 'r'): "\r\n" and a lone "\r" are read as "\n"
RECURSIVE UniversalNewlines(_, _)
UniversalNewlines(text, k) ==
    IF k > Len(text) THEN << >>
    ELSE IF text[k] = "\r"
         THEN <<"\n">> \o UniversalNewlines(text,
                  IF k < Len(text) /\ text[k + 1] = "\n" THEN k + 2 ELSE k + 1)
         ELSE <<text[k]>> \o UniversalNewlines(text, k + 1)

\* csv.reader, excel dialect: one step of the parser on character c
ParseChar(p, c) ==
    LET saved == Append(p.row, p.field)
    IN  CASE p.state = "START_RECORD" /\ c = "\n" ->
                 [p EXCEPT !.rows = Append(@, << >>)]
          [] p.state \in {"START_RECORD", "START_FIELD"} /\ c = "\n" ->
                 [p EXCEPT !.rows = Append(@, saved), !.row = << >>,
                           !.field = << >>, !.state = "START_RECORD"]
          [] p.state \in {"START_RECORD", "START_FIELD"} /\ c = "\"" ->
                 [p EXCEPT !.state = "IN_QUOTED_FIELD"]
          [] p.state \in {"START_RECORD", "START_FIELD"} /\ c = "," ->
                 [p EXCEPT !.row = saved, !.field = << >>, !.state = "START_FIELD"]
          [] p.state \in {"START_RECORD", "START_FIELD"} /\ c \notin {"\n", "\"", ","} ->
                 [p EXCEPT !.field = Append(@, c), !.state = "IN_FIELD"]
          [] p.state \in {"IN_FIELD", "QUOTE_IN_QUOTED_FIELD"} /\ c = "\n" ->
                 [p EXCEPT !.rows = Append(@, saved), !.row = << >>,
                           !.field = << >>, !.state = "START_RECORD"]
          [] p.state \in {"IN_FIELD", "QUOTE_IN_QUOTED_FIELD"} /\ c = "," ->
                 [p EXCEPT !.row = saved, !.field = << >>, !.state = "START_FIELD"]
          [] p.state = "IN_FIELD" /\ c \notin {"\n", ","} ->
                 [p EXCEPT !.field = Append(@, c)]
          [] p.state = "IN_QUOTED_FIELD" /\ c = "\"" ->
                 [p EXCEPT !.state = "QUOTE_IN_QUOTED_FIELD"]
          [] p.state = "IN_QUOTED_FIELD" /\ c # "\"" ->
                 [p EXCEPT !.field = Append(@, c)]
          [] p.state = "QUOTE_IN_QUOTED_FIELD" /\ c = "\"" ->
                 [p EXCEPT !.field = Append(@, c), !.state = "IN_QUOTED_FIELD"]
          [] p.state = "QUOTE_IN_QUOTED_FIELD" /\ c \notin {"\n", ",", "\""} ->
                 [p EXCEPT !.field = Append(@, c), !.state = "IN_FIELD"]

RECURSIVE ParseFrom(_, _, _)
ParseFrom(p, text, k) ==
    IF k > Len(text)
    THEN IF p.state = "START_RECORD" THEN p.rows
         ELSE Append(p.rows, Append(p.row, p.field))
    ELSE ParseFrom(ParseChar(p, text[k]), text, k + 1)

\* rows = list(csv.reader(csvfile))
ReadRows(file) ==
    ParseFrom([rows |-> << >>, row |-> << >>, field |-> << >>, state |-> "START_RECORD"],
              UniversalNewlines(file, 1), 1)

\* a Python list of k items from a sequence: items 0 .. k-1
FromList(seq) == [i \in 0 .. (Len(seq) - 1) |-> seq[i + 1]]

\* np.array(matrix_data): the empty list gives an array of shape (0,),
\* rows of one length m an array of shape (k, m), ragged rows raise
np_array(matrix_data) ==
    IF Len(matrix_data) = 0
    THEN [status |-> "ok", shape |-> <<0>>, array |-> << >>]
    ELSE IF \E r \in 1 .. Len(matrix_data) : Len(matrix_data[r]) # Len(matrix_data[1])
         THEN [status |-> "ValueError"]
         ELSE [status |-> "ok",
               shape |-> <<Len(matrix_data), Len(matrix_data[1])>>,
               array |-> FromList([r \in 1 .. Len(matrix_data) |-> FromList(matrix_data[r])])]

\* load_contact_matrix_csv: (contact_matrix, part_names) read from the text
load_contact_matrix_csv(file) ==
    LET rows == ReadRows(file)
    IN  IF Len(rows) = 0
        THEN [status |-> "IndexError"]
        ELSE IF \E r \in 2 .. Len(rows) : \E k \in 2 .. Len(rows[r]) : ~IsInt(rows[r][k])
             THEN [status |-> "ValueError"]
             ELSE LET matrix_data ==
                          [r \in 1 .. (Len(rows) - 1) |->
                              [k \in 1 .. (Len(rows[r + 1]) - 1) |->
                                  IntValue(rows[r + 1][k + 1])]]
                      contact_array == np_array(matrix_data)
                  IN  IF contact_array.status # "ok"
                      THEN [status |-> "ValueError"]
                      ELSE [status |-> "ok",
                            contact_matrix |-> [shape |-> contact_array.shape,
                                                array |-> contact_array.array],
                            part_names |-> FromList(SubSeq(rows[1], 2, Len(rows[1])))]

\* part names handed to the export: a generated name, the empty name, and
\* names holding a delimiter, a quote and a carriage return
CsvNames ==
    { <<"P", "a", "r", "t", "_", "0">>, << >>, <<"a", ",", "\"">>, <<"a", "\r", "b">> }

\* files a user wrote by hand for load_contact_matrix_csv: a cell with a
\* leading space, a cell with a sign and an underscore, a cell that is no
\* number, a cell with U+001C before an Extended Arabic-Indic digit, and the
\* empty file
HandWritten ==
    { <<",", "a", "\n", "b", ",", " ", "1", "\n">>,
      <<",", "a", "\n", "b", ",", "-", "1", "_", "0", "\n">>,
      <<",", "a", "\n", "b", ",", "x", "\n">>,
      <<",", "a", "\n", "b", ",", "u001C", "u06F1", "\n">>,
      << >> }

\* the files on disk before the first call: none, or one written by hand
FilesAtStart ==
    {NoFiles} \cup {Put(NoFiles, DefaultCsvPath, text) : text \in HandWritten}

\* The arguments of the export are the analyzer's fields, which may be out
\* of step: contact_matrix is None until computed and is kept by a later
\* load_step_file that changes the parts.
InitCsv ==
    \E n \in 0 .. MaxCsvParts : \E m \in 0 .. MaxCsvParts :
      \E matrix \in {None} \cup {Array(M) : M \in BinaryMatrices(n)} :
        \E names \in [0 .. (m - 1) -> CsvNames] : \E fs \in FilesAtStart :
          /\ geometry = Unknown
          /\ tolerance = Tolerance
          /\ parts = [part_index \in 0 .. (m - 1) |-> part_index]
          /\ part_names = names
          /\ contact_matrix = matrix
          /\ warnings = << >>
          /\ queries = << >>
          /\ result = [op |-> "__init__", status |-> "ok"]
          /\ computed = FALSE
          /\ returned = << >>
          /\ script = NoScript
          /\ files = fs

ExportContactMatrixCsv(filename) ==
    /\ FilePath(filename) \in DOMAIN files \/ Cardinality(DOMAIN files) < MaxFiles
    /\ \E r \in {export_contact_matrix_csv(contact_matrix, part_names, filename)} :
           /\ files' = Put(files, r.file_path, r.file)
           /\ result' = [op |-> "export_contact_matrix_csv", status |-> r.status,
                         file_path |-> r.file_path]
    /\ warnings' = << >>
    /\ queries' = << >>
    /\ UNCHANGED <<geometry, tolerance, parts, part_names, contact_matrix, computed, returned, script>>

\* the paths load_contact_matrix_csv is called with
Paths == {DefaultCsvPath, RootCsvPath, MovedCsvPath}

\* open(filename, 'r') raises FileNotFoundError when no file is at the path
LoadContactMatrixCsv(filename) ==
    /\ \E r \in {IF filename \in DOMAIN files
                  THEN load_contact_matrix_csv(files[filename])
                  ELSE [status |-> "FileNotFoundError"]} :
           result' = [op |-> "load_contact_matrix_csv", status |-> r.status,
                      filename |-> filename, ret |-> r]
    /\ warnings' = << >>
    /\ queries' = << >>
    /\ UNCHANGED <<geometry, tolerance, parts, part_names, contact_matrix, computed, returned, script, files>>

\* OutputManager.get_unique_filename for contact_matrix.csv in the matrices
\* directory: the plain name when it is free, else the name with the
\* timestamp, else the first name with timestamp and counter that is free
get_unique_filename(fs, now) ==
    IF MovedCsvPath \notin DOMAIN fs THEN MovedCsvPath
    ELSE IF StampedCsvPath(now) \notin DOMAIN fs THEN StampedCsvPath(now)
    ELSE CountedCsvPath(now,
             CHOOSE counter \in 1 .. (Cardinality(DOMAIN fs) + 1) :
                 /\ CountedCsvPath(now, counter) \notin DOMAIN fs
                 /\ \A c \in 1 .. (counter - 1) : CountedCsvPath(now, c) \in DOMAIN fs)

\* OutputManager.move_existing_outputs: a file of the project root whose
\* name matches *contact_matrix*.csv is moved to the matrices directory
\* under a name no file there has
move_existing_outputs(fs, now) ==
    IF RootCsvPath \notin DOMAIN fs THEN fs
    ELSE Put(Remove(fs, RootCsvPath), get_unique_filename(fs, now), fs[RootCsvPath])

\* initialize_outputs(): move_existing_outputs, then create_readme, which
\* writes outputs/README.md and no CSV file
InitializeOutputs(now) ==
    /\ files' = move_existing_outputs(files, now)
    /\ result' = [op |-> "initialize_outputs", status |-> "ok"]
    /\ warnings' = << >>
    /\ queries' = << >>
    /\ UNCHANGED <<geometry, tolerance, parts, part_names, contact_matrix, computed, returned, script>>

NextCsv ==
    \/ \E filename \in Filenames : ExportContactMatrixCsv(filename)
    \/ \E filename \in Paths : LoadContactMatrixCsv(filename)
    \/ \E now \in Clock : InitializeOutputs(now)

SpecCsv == InitCsv /\ [][NextCsv]_vars

\* The last call was analyze_contact_matrix_properties and it returned.
AnalysisReturned ==
    result.op = "analyze_contact_matrix_properties" /\ result.out.status = "ok"

\* The number of cells of M that hold 1, diagonal included.
OnesCount(M) == Cardinality({p \in (DOMAIN M) \X (DOMAIN M) : M[p[1]][p[2]] = 1})

\* C11: analyze_contact_matrix_properties reports n_parts = the number of
\* rows and total_contacts = floor(sum of all entries, diagonal included, / 2)
\* for every 0/1 matrix: 3 for the path matrix, 5 for the 4-part test matrix.
C11_ContactsAreHalfTheSum ==
    AnalysisReturned =>
        /\ result.out.n_parts = Len0(result.M)
        /\ result.out.total_contacts = OnesCount(result.M) \div 2
        /\ result.M = PathMatrix => result.out.total_contacts = 3
        /\ result.M = TestMatrix4 => result.out.total_contacts = 5

\* C11 witness: the analysis of the path matrix reported 3 contacts.
C11_Witness ==
    /\ AnalysisReturned
    /\ result.M = PathMatrix
    /\ result.out.n_parts = 3
    /\ result.out.total_contacts = 3

\* The last call was analyze_contact_matrix_properties, returned or raised.
AnalysisCalled == result.op = "analyze_contact_matrix_properties"

\* C12: the contact_density reported for a symmetric unit-diagonal 0/1
\* contact matrix of any size lies in the closed interval [0, 1].
C12_DensityInUnitInterval ==
    AnalysisReturned =>
        /\ result.out.contact_density.num >= 0
        /\ result.out.contact_density.num <= result.out.contact_density.den

\* C13: for the 0 x 0 matrix and for [[1]] the analysis returns normally,
\* with density 0 and the contact count and the min, max and mean degree at
\* zero and a defined isolated count, instead of raising.
C13_DegenerateSizesReturn ==
    (AnalysisCalled /\ Len0(result.M) <= 1) =>
        /\ result.out.status = "ok"
        /\ result.out.contact_density.num = 0
        /\ result.out.total_contacts = 0
        /\ result.out.max_connections = 0
        /\ result.out.min_connections = 0
        /\ result.out.avg_connections.num = 0
        /\ result.out.isolated_parts \in 0 .. 1

\* C14: handshake lemma: for a symmetric unit-diagonal contact matrix the
\* sum of the degrees the analysis computes (row sum minus the diagonal
\* entry) equals twice the reported total_contacts.
C14_HandshakeLemma ==
    AnalysisReturned =>
        SumTo([i \in DOMAIN result.M |-> RowSum(result.M, i) - result.M[i][i]],
              Len0(result.M))
            = 2 * result.out.total_contacts

\* The text export_contact_matrix_csv writes for the analyzer's fields.
ExportedText == export_contact_matrix_csv(contact_matrix, part_names, << >>).file

\* C15: CSV round trip: loading the file that export_contact_matrix_csv wrote
\* for an n x n 0/1 matrix (n >= 0) and n part names returns a matrix of the
\* same shape with identical entries and the same names in the same order.
C15_CsvRoundTrip ==
    (/\ result.op = "load_contact_matrix_csv"
     /\ contact_matrix # None
     /\ Len0(contact_matrix.array) = Len0(part_names)
     /\ result.filename \in DOMAIN files
     /\ files[result.filename] = ExportedText) =>
        /\ result.status = "ok"
        /\ result.ret.contact_matrix.shape = <<Len0(part_names), Len0(part_names)>>
        /\ result.ret.contact_matrix.array = contact_matrix.array
        /\ result.ret.part_names = part_names

\* C16: for fixed parts, tolerance and kernel answers, evaluating the pairs
\* in any order yields the matrix of the sequential i < j loop, and computing
\* again from the same inputs yields the identical matrix.
C16_OrderIndependent ==
    [][ /\ (result'.op = "evaluate_pairs" /\ result'.finished) =>
               contact_matrix' = Array(compute_contact_matrix(geometry.answers).M)
        /\ (computed /\ result'.op = "compute_contact_matrix") =>
               contact_matrix' = contact_matrix ]_vars

\* C16 witness: three parts whose pairs were evaluated out of loop order
\* ended in the path matrix.
C16_Witness ==
    /\ result.op = "evaluate_pairs"
    /\ result.finished
    /\ result.out_of_order
    /\ contact_matrix = Array(PathMatrix)

\* The last call was compute with the bounding-box filter enabled.
FilterWasOn == result.op = "compute" /\ result.use_bbox_filter

\* The pairs whose reported minimum distance is within the tolerance.
WithinTolerancePairs ==
    {p \in SolidPairs(NParts) :
        /\ geometry.answers[p].kind = "done"
        /\ geometry.answers[p].value <= tolerance}

\* C17: enabling the bounding-box pre-filter never changes the contact
\* matrix: the matrix computed with the filter on is the matrix computed
\* with it off, which is the one the code's loop computes, and the filter
\* rejects no pair whose minimum distance is <= tolerance; the distance
\* queries made with the filter on are among those made with it off.
C17_FilterChangesNothing ==
    FilterWasOn =>
        /\ contact_matrix.array = compute(geometry, FALSE).M
        /\ contact_matrix.array = compute_contact_matrix(geometry.answers).M
        /\ \A p \in WithinTolerancePairs :
               box_overlap(geometry.solids[p[1]], geometry.solids[p[2]], tolerance)
        /\ Range(queries) \subseteq Range(compute(geometry, FALSE).asked)

\* C17 witness: with the filter on, two parts whose boxes are apart as they
\* are and overlap once expanded by the tolerance were handed to the
\* detector and found in contact.
C17_Witness ==
    /\ FilterWasOn
    /\ NParts = 2
    /\ ~box_overlap_unexpanded(geometry.solids[0], geometry.solids[1], tolerance)
    /\ queries = <<<<0, 1>>>>
    /\ contact_matrix.array[0][1] = 1

\* The call just made was one of the three analyses.
AnalysisStep ==
    result'.op \in {"analyze_contact_matrix_properties", "get_contact_graph",
                    "print_contact_summary"}

\* C18: analyze_contact_matrix_properties, get_contact_graph and
\* print_contact_summary leave every entry of the contact matrix, the part
\* list and the part names unchanged, whatever the state they are called in.
C18_AnalysesReadOnly ==
    [][AnalysisStep =>
           /\ contact_matrix' = contact_matrix
           /\ parts' = parts
           /\ part_names' = part_names]_vars

\* C18 witness: an analysis has run on a computed matrix of three parts
\* that holds a contact.
C18_Witness ==
    /\ result.op \in {"analyze_contact_matrix_properties", "get_contact_graph",
                      "print_contact_summary"}
    /\ NParts = 3
    /\ contact_matrix = Array(PathMatrix)

\* C20: one compute_contact_matrix call over n parts queries each unordered
\* pair i < j exactly once (n(n-1)/2 queries), never a part against itself and
\* never a pair again after a failure; the cells (i, j) and (j, i) are written
\* only by the evaluation of that pair, and the diagonal is set only after
\* every pair has been evaluated.
C20_EachPairOnceThenDiagonal ==
    (AfterCompute /\ result.status = "ok") =>
        LET n == NParts
            w == result.writes
        IN  /\ Len(queries) = (n * (n - 1)) \div 2
            /\ \A k \in 1 .. Len(queries) : queries[k][1] < queries[k][2]
            /\ \A k, l \in 1 .. Len(queries) :
                   {queries[k][1], queries[k][2]} = {queries[l][1], queries[l][2]} => k = l
            /\ {queries[k] : k \in 1 .. Len(queries)} = SolidPairs(n)
            /\ Len(w) = Len(queries) + 1
            /\ \A k \in 1 .. Len(queries) :
                   /\ w[k].pair = queries[k]
                   /\ w[k].cells \subseteq {<<queries[k][1], queries[k][2]>>,
                                            <<queries[k][2], queries[k][1]>>}
            /\ w[Len(w)].pair = << >>
            /\ w[Len(w)].cells = {<<i, i>> : i \in 0 .. (n - 1)}

\* C20 witness: a call over three parts in which a query failed and a pair
\* was found in contact.
C20_Witness ==
    /\ AfterCompute
    /\ NParts = 3
    /\ Len(queries) = 3
    /\ \E p \in SolidPairs(3) : QueryFailed(p[1], p[2])
    /\ \E k \in 1 .. 3 : result.writes[k].cells # {}

\* The number of connected components grows when the edge e is removed.
RemovalDisconnects(G, e) ==
    Cardinality(connected_components([G EXCEPT !.edges = @ \ {e}]))
        > Cardinality(connected_components(G))

\* C19: the bridges reported for a contact graph are exactly the edges whose
\* removal increases the number of connected components: both edges of the
\* 3-part path, none for 4 isolated parts (4 components), none for the fully
\* connected 4-part cluster.
C19_BridgesDisconnect ==
    result.op = "graph_analysis" =>
        /\ result.bridges = {e \in result.G.edges : RemovalDisconnects(result.G, e)}
        /\ contact_matrix = Array(PathMatrix) => result.bridges = {{0, 1}, {1, 2}}
        /\ contact_matrix = Array(ContactMatrixOf(4, {})) =>
               result.bridges = {} /\ Cardinality(result.components) = 4
        /\ contact_matrix = Array(ContactMatrixOf(4, SolidPairs(4))) =>
               result.bridges = {} /\ Cardinality(result.G.edges) = 6

\* C19 witness: both edges of the 3-part path were reported as bridges.
C19_Witness ==
    /\ result.op = "graph_analysis"
    /\ contact_matrix = Array(PathMatrix)
    /\ result.bridges = {{0, 1}, {1, 2}}

\* C21: a matrix returned by an earlier compute_contact_matrix call is never
\* modified by a later call on the same analyzer: every array a caller holds
\* has the entries it had when it was returned.
C21_ReturnedMatrixStaysFixed ==
    \A k \in 1 .. Len(returned) : returned[k].array = returned[k].at_return

\* C21 witness: two arrays are held, the earlier one differs from the later
\* one and is no longer the analyzer's array.
C21_Witness ==
    /\ Len(returned) = 2
    /\ returned[1].array # returned[2].array
    /\ ~returned[1].is_field
    /\ returned[2].is_field
    /\ contact_matrix = Array(returned[2].array)

\* main.py is in analyze_step_file and load_step_file has returned False.
LoadFailedInMain ==
    /\ script.pc = "analyze"
    /\ result.op = "load_step_file"
    /\ ~result.ret

\* C22: when load_step_file returns False, analyze_step_file returns False
\* without calling compute_contact_matrix or visualize_contact_graph, and
\* main() ends with a non-zero exit status, with an explicit file argument
\* and on the default-file path alike.
C22_FailedLoadExitsNonZero ==
    [][LoadFailedInMain =>
           /\ result' = result
           /\ contact_matrix' = contact_matrix
           /\ script'.pc = "exited"
           /\ script'.exit # 0]_vars

\* A load_step_file call has just returned False.
LoadReturnedFalse == result'.op = "load_step_file" /\ ~result'.ret

\* C23: a load_step_file call that returns False leaves parts, part_names
\* and contact_matrix as they were before the call, and in every reachable
\* state len(parts) == len(part_names).
C23_FailedLoadChangesNothing ==
    [][ /\ LoadReturnedFalse =>
               /\ parts' = parts
               /\ part_names' = part_names
               /\ contact_matrix' = contact_matrix
        /\ Len0(parts') = Len0(part_names') ]_vars

====
